---- MODULE Spec2Model ----
(***************************************************************************)
(* A model of the backtest pipeline of learnapp-co/algo-trading:           *)
(*   src/src/backtest.js  runTest (pattern detector), runBacktest          *)
(*   src/src/helpers.js   readFile, groupByDate, round, percentChange      *)
(*   src/src/index.js     GET /backtest                                    *)
(*                                                                         *)
(* Numbers.  JavaScript numbers are modelled as exact decimals with four   *)
(* fraction digits, held as an integer count of 1/PriceScale, tagged so    *)
(* that NaN and the two infinities are values of their own:                *)
(*   [k |-> "num", v |-> n]   the number n / PriceScale                    *)
(*   [k |-> "inf", v |-> 1]   +Infinity,  [k |-> "inf", v |-> -1] -Infinity*)
(*   [k |-> "nan", v |-> 0]   NaN                                          *)
(* Binary floating-point representation error is not modelled.             *)
(***************************************************************************)
EXTENDS Integers, Sequences, FiniteSets, TLC

VARIABLES
    series,     \* detector run: the ohlc array handed to runTest
    dpc,        \* detector run: "input" before runTest, "scanned" after
    detected,   \* detector run: the allTrades array runTest returned
    nfoStocks,  \* config.nfoStocks: the symbols of the universe, in order
    files,      \* data/<year>/<symbol>.json of nfoStocks[i]: [status, ohlc]
    pc,         \* where runBacktest stands in that request
    scans,      \* the promise of runTest(year, nfoStocks[i]): [state, value]
    completionOrder, \* the indices i in the order their read callbacks ran
    allTrades,  \* runBacktest's allTrades
    allTradesByDates, \* runBacktest's allTradesByDates
    monthlyPnl, \* runBacktest's monthlyPnl
    trades,     \* runBacktest's trades
    processed,  \* the date keys in the order the forEach visited them
    csvLines,   \* runBacktest's csvLines
    results,    \* << >>, or <<r>> with r the results object
    disk,       \* the result files under data/<year>: [json, csv]
    response,   \* << >>, or <<r>> with r what GET /backtest sent
    previous,   \* << >>, or <<p>> with p what the request before sent and exported
    dayTrades,  \* selector run: allTradesByDates[date] as groupByDate left it
    spc,        \* selector run: "input" before sort and slice, "selected" after
    selected,   \* selector run: the trades pushed to trades[date]
    instruments, \* helpers.js `let instruments`: << >> undefined, or <<listing>>
    dataDir,    \* data/instruments.json and data/instrument.json: << >> or <<listing>>
    kite,       \* how many listings kite.getInstruments has served
    calls       \* the calls of getInstruments and downloadInstruments in flight

dvars == <<series, dpc, detected>>
pvars == <<nfoStocks, files, pc, scans, completionOrder, allTrades,
           allTradesByDates, monthlyPnl, trades, processed, csvLines, results,
           disk, response, previous>>
svars == <<dayTrades, spc, selected>>
ivars == <<instruments, dataDir, kite, calls>>
vars == <<series, dpc, detected, nfoStocks, files, pc, scans,
          completionOrder, allTrades, allTradesByDates, monthlyPnl, trades,
          processed, csvLines, results, disk, response, previous,
          dayTrades, spc, selected, instruments, dataDir, kite, calls>>

----------------------------------------------------------------------------
(* Bounds of the model *)

\* longest ohlc array of the detector runs
MaxBars == 6
\* most symbols in config.nfoStocks
MaxSymbols == 3
\* most candidates of one date in the selector runs
MaxBucket == 11
\* most calls of getInstruments and downloadInstruments in flight at once
MaxCalls == 2
\* most listings kite.getInstruments serves
MaxDownloads == 2

----------------------------------------------------------------------------
(* Program constants *)

\* slippage = 1 + 0.001, as the fraction SlippageNum / SlippageDen
SlippageNum == 1001
SlippageDen == 1000
\* the loop reads ohlc[start] .. ohlc[start + 4]
Lookback == 4
\* .slice(0, 2)
TopK == 2

\* numbers are counted in 1/PriceScale; Cent is 0.01, the step round() keeps
PriceScale == 100 * 100
Cent == PriceScale \div 100

----------------------------------------------------------------------------
(* JavaScript numbers *)

Num(n) == [k |-> "num", v |-> n]
NaN == [k |-> "nan", v |-> 0]
PosInf == [k |-> "inf", v |-> 1]
NegInf == [k |-> "inf", v |-> -1]

IsNumeric(x) == x.k = "num"

\* x > y; every comparison with NaN is false
Gt(x, y) ==
    /\ x.k # "nan"
    /\ y.k # "nan"
    /\ \/ x.k = "num" /\ y.k = "num" /\ x.v > y.v
       \/ x = PosInf /\ y # PosInf
       \/ y = NegInf /\ x # NegInf

\* x + y
Add(x, y) ==
    IF x.k = "nan" \/ y.k = "nan" THEN NaN
    ELSE IF x.k = "inf" /\ y.k = "inf" THEN (IF x.v = y.v THEN x ELSE NaN)
    ELSE IF x.k = "inf" THEN x
    ELSE IF y.k = "inf" THEN y
    ELSE Num(x.v + y.v)

\* -x
Neg(x) == IF x.k = "nan" THEN NaN ELSE [k |-> x.k, v |-> 0 - x.v]

\* !x : 0 and NaN are falsy
Falsy(x) == x.k = "nan" \/ (x.k = "num" /\ x.v = 0)

\* Math.round(n / d) for d > 0: the nearest integer, halves towards +Infinity
RoundHalfUp(n, d) == (n \div d) + (IF 2 * (n % d) >= d THEN 1 ELSE 0)

\* Math.round(n * 100 * 100 / d) for d > 0, by long division so that every
\* intermediate product stays below 2^31
RoundRatio(n, d) ==
    LET q0 == n \div d
        r0 == n % d
        q1 == (r0 * 100) \div d
        r1 == (r0 * 100) % d
        q2 == (r1 * 100) \div d
        r2 == (r1 * 100) % d
    IN  q0 * 10000 + q1 * 100 + q2 + (IF 2 * r2 >= d THEN 1 ELSE 0)

\* helpers.round: Math.round(number * 100) / 100
Round(x) == IF x.k = "num" THEN Num(Cent * RoundHalfUp(x.v, Cent)) ELSE x

\* helpers.percentChange(a, b) = round(((b - a) / a) * 100), a and b finite
PercentChange(a, b) ==
    IF a = 0
    THEN (IF b > 0 THEN PosInf ELSE IF b < 0 THEN NegInf ELSE NaN)
    ELSE IF a > 0 THEN Num(Cent * RoundRatio(b - a, a))
    ELSE Num(Cent * RoundRatio(a - b, 0 - a))

----------------------------------------------------------------------------
(* Dates *)

\* a bar's date is <<year, month, day>>; moment(date).format('DD-MM-YYYY')
\* gives the key <<day, month, year>>
FormatDate(date) == <<date[3], date[2], date[1]>>

\* moment(key, 'DD-MM-YYYY'): the instant of the key, counted in days
ParseDate(key) == (key[3] * 12 + (key[2] - 1)) * 31 + (key[1] - 1)

MonthNames ==
    <<"Jan", "Feb", "Mar", "Apr", "May", "Jun",
      "Jul", "Aug", "Sep", "Oct", "Nov", "Dec">>

\* moment(key, 'DD-MM-YYYY').format('MMM')
MonthLabel(key) == MonthNames[key[2]]

----------------------------------------------------------------------------
(* runTest: the pattern detector *)

\* a rally test that compares the closes only, not their differences
RallyNoDelta(d1, d2, d3, d4) ==
    /\ d1.close > d2.close
    /\ d2.close > d3.close
    /\ d3.close > d4.close

\* a rally test that asks for shrinking differences towards d1
RallyDecelerating(d1, d2, d3, d4) ==
    /\ (d1.close - d2.close) < (d2.close - d3.close)
    /\ (d2.close - d3.close) < (d3.close - d4.close)
    /\ d1.close > d2.close
    /\ d2.close > d3.close
    /\ d3.close > d4.close

\* Algo Step 1: the conditions on the closes of d1..d4
Rally(d1, d2, d3, d4) ==
    /\ (d1.close - d2.close) > (d2.close - d3.close)
    /\ (d2.close - d3.close) > (d3.close - d4.close)
    /\ d1.close > d2.close
    /\ d2.close > d3.close
    /\ d3.close > d4.close

\* entry = helpers.round(d1.close * slippage)
EntryPrice(close) == Num(Cent * RoundHalfUp(close * SlippageNum, SlippageDen * Cent))

\* a signal date formatted without its day
SignalDateMonthOnly(bar) == <<1, bar.date[2], bar.date[1]>>

\* date = moment(d1.date).format(DATE_FORMAT)
SignalDate(bar) == FormatDate(bar.date)

\* the body of the loop for one value of start (0-based): the trades pushed
WindowTrades(symbol, ohlc, start) ==
    LET d0 == ohlc[start + 1]
        d1 == ohlc[start + 2]
        d2 == ohlc[start + 3]
        d3 == ohlc[start + 4]
        d4 == ohlc[start + 5]
        d1inc == PercentChange(d2.close, d1.close)
        d2inc == PercentChange(d3.close, d2.close)
        d3inc == PercentChange(d4.close, d4.close)
        entry == EntryPrice(d1.close)
    IN  IF Rally(d1, d2, d3, d4) /\ Gt(d1inc, d2inc) /\ Gt(d2inc, d3inc)
        THEN << [date |-> SignalDate(d1),
                 entry |-> entry,
                 exit |-> Num(d0.open),
                 symbol |-> symbol,
                 pnlPercent |-> PercentChange(entry.v, d0.open),
                 change |-> d1inc] >>
        ELSE << >>

RECURSIVE RunTestFrom(_, _, _)
RunTestFrom(symbol, ohlc, start) ==
    IF start >= Len(ohlc) - Lookback
    THEN << >>
    ELSE WindowTrades(symbol, ohlc, start) \o RunTestFrom(symbol, ohlc, start + 1)

\* runTest(year, symbol) once the file is read: the allTrades it returns
RunTest(symbol, ohlc) == RunTestFrom(symbol, ohlc, 0)

----------------------------------------------------------------------------
(* Inputs of the detector runs: ohlc arrays, current date on top *)

\* the date of the k-th most recent bar, k = 1 being 3 Feb 2018
BarDate(k) == IF k <= 3 THEN <<2018, 2, 4 - k>> ELSE <<2018, 1, 35 - k>>

\* closes of a penny instrument, in 1/PriceScale, and of a quoted one
PennyCloses == {0, 1, 2, 5, 13}
QuotedCloses == {100 * PriceScale, 102 * PriceScale, 105 * PriceScale,
                 109 * PriceScale, 114 * PriceScale}
PennyOpens == {0, 5}
QuotedOpens == {100 * PriceScale, 115 * PriceScale}

\* the ohlc array with the given closes, every bar opening at open
MkOhlc(closes, open) ==
    [i \in 1..Len(closes) |->
        [date |-> BarDate(i), open |-> open, close |-> closes[i]]]

\* the arrays of at most MaxBars bars over the given closes and opens
IsDetectorInput(ohlc, closes, opens) ==
    \E m \in 0..MaxBars : \E c \in [1..m -> closes] : \E o \in opens :
        ohlc = MkOhlc(c, o)

DetectorSymbol == "ACC"

----------------------------------------------------------------------------
(* JavaScript objects with string keys: the entries in insertion order *)

ObjHas(o, key) == \E i \in 1..Len(o) : o[i].key = key
ObjIndex(o, key) == CHOOSE i \in 1..Len(o) : o[i].key = key
ObjGet(o, key) == o[ObjIndex(o, key)].val
ObjSet(o, key, val) ==
    IF ObjHas(o, key)
    THEN [o EXCEPT ![ObjIndex(o, key)].val = val]
    ELSE Append(o, [key |-> key, val |-> val])
ObjKeys(o) == [i \in 1..Len(o) |-> o[i].key]

----------------------------------------------------------------------------
(* runBacktest: aggregation *)

\* the values of the scans in the order in which they settled
PromiseAllByCompletion ==
    [k \in 1..Len(completionOrder) |-> scans[completionOrder[k]].value]

\* await Promise.all(promises): the values in the order of the promises
PromiseAllValues == [i \in 1..Len(scans) |-> scans[i].value]

\* lodash flatten
RECURSIVE Flatten(_)
Flatten(arrays) ==
    IF Len(arrays) = 0 THEN << >> ELSE Head(arrays) \o Flatten(Tail(arrays))

\* helpers.groupByDate
RECURSIVE GroupByDateFrom(_, _)
GroupByDateFrom(array, acc) ==
    IF Len(array) = 0
    THEN acc
    ELSE LET item == Head(array)
             bucket == IF ObjHas(acc, item.date) THEN ObjGet(acc, item.date) ELSE << >>
         IN  GroupByDateFrom(Tail(array), ObjSet(acc, item.date, Append(bucket, item)))

GroupByDate(array) == GroupByDateFrom(array, << >>)

\* (d1, d2) => moment(d1, DATE_FORMAT).diff(moment(d2, DATE_FORMAT))
CompareDates(d1, d2) == ParseDate(d1) - ParseDate(d2)

\* (t1, t2) => t2.change - t1.change ; a NaN difference counts as 0
CompareChange(t1, t2) ==
    LET diff == Add(t2.change, Neg(t1.change))
    IN  IF Gt(diff, Num(0)) THEN 1 ELSE IF Gt(Num(0), diff) THEN 0 - 1 ELSE 0

\* the comparator handed to sort: of date keys, or of trades
Compare(by, a, b) == IF by = "date" THEN CompareDates(a, b) ELSE CompareChange(a, b)

\* Array.prototype.sort on the short arrays of a run (insertion sort, stable):
\* a negative comparison puts a first, a zero one keeps the order of the array
StableSort(arr, by) ==
    LET n == Len(arr)
        Rank(i) == 1 + Cardinality({j \in 1..n :
                        \/ Compare(by, arr[j], arr[i]) < 0
                        \/ Compare(by, arr[j], arr[i]) = 0 /\ j < i})
    IN  [p \in 1..n |-> arr[CHOOSE i \in 1..n : Rank(i) = p]]

\* Object.keys(allTradesByDates).sort(...)
SortedDates(buckets) == StableSort(ObjKeys(buckets), "date")

\* .sort((t1, t2) => t2.change - t1.change)
SortByChange(bucket) == StableSort(bucket, "change")

\* a slice that keeps three
TakeThree(sorted) == SubSeq(sorted, 1, IF Len(sorted) < 3 THEN Len(sorted) ELSE 3)

\* .slice(0, 2)
TakeTop(sorted) == SubSeq(sorted, 1, IF Len(sorted) < TopK THEN Len(sorted) ELSE TopK)

\* totalPnl += trade.pnlPercent, over the trades taken
RECURSIVE TotalPnl(_, _)
TotalPnl(ts, acc) ==
    IF Len(ts) = 0 THEN acc ELSE TotalPnl(Tail(ts), Add(acc, Head(ts).pnlPercent))

\* the body of the forEach over the sorted dates
ProcessDate(st, date) ==
    LET month == MonthLabel(date)
        m1 == IF ~ObjHas(st.monthlyPnl, month) \/ Falsy(ObjGet(st.monthlyPnl, month))
              THEN ObjSet(st.monthlyPnl, month, Num(0))
              ELSE st.monthlyPnl
        t1 == IF ~ObjHas(st.trades, date)
              THEN ObjSet(st.trades, date, << >>)
              ELSE st.trades
        sorted == SortByChange(ObjGet(st.buckets, date))
        top == TakeTop(sorted)
        totalPnl == TotalPnl(top, Num(0))
    IN  [buckets |-> ObjSet(st.buckets, date, sorted),
         monthlyPnl |-> ObjSet(m1, month, Round(Add(ObjGet(m1, month), totalPnl))),
         trades |-> ObjSet(t1, date, ObjGet(t1, date) \o top),
         processed |-> Append(st.processed, date)]

RECURSIVE ProcessDates(_, _)
ProcessDates(dates, st) ==
    IF Len(dates) = 0 THEN st ELSE ProcessDates(Tail(dates), ProcessDate(st, Head(dates)))

\* trades[date].reduce((acc, trade) => helpers.round(acc + trade.pnlPercent), 0)
RECURSIVE ReducePnl(_, _)
ReducePnl(ts, acc) ==
    IF Len(ts) = 0
    THEN acc
    ELSE ReducePnl(Tail(ts), Round(Add(acc, Head(ts).pnlPercent)))

\* an export with one line per selected trade
CsvRowsPerTrade(tradesObj) ==
    Flatten([i \in 1..Len(tradesObj) |->
        [j \in 1..Len(tradesObj[i].val) |->
            [date |-> tradesObj[i].key, pnl |-> tradesObj[i].val[j].pnlPercent]]])

\* Object.keys(trades).forEach: one csv line per key
CsvRows(tradesObj) ==
    [i \in 1..Len(tradesObj) |->
        [date |-> tradesObj[i].key, pnl |-> ReducePnl(tradesObj[i].val, Num(0))]]

\* Object.keys(monthlyPnl).reduce((acc, month) => round(acc + monthlyPnl[month]), 0)
RECURSIVE YearlyPnl(_, _)
YearlyPnl(months, acc) ==
    IF Len(months) = 0
    THEN acc
    ELSE YearlyPnl(Tail(months), Round(Add(acc, Head(months).val)))

CsvHeader == "Date,PnL%"

----------------------------------------------------------------------------
(* The data files of a run *)

Universe == <<"ACC", "BHEL", "CIPLA", "DLF", "EXIDE", "GAIL">>

\* bars with the given closes and opens, the first dated BarDate(first)
MkBars(closes, opens, first) ==
    [i \in 1..Len(closes) |->
        [date |-> BarDate(first + i - 1), open |-> opens[i], close |-> closes[i]]]

Rupees(n) == n * PriceScale

\* fs.readFile fails (ENOENT)
MissingFile == [status |-> "missing", ohlc |-> << >>]
\* the content is not JSON
UnparsableFile == [status |-> "unparsable", ohlc |-> << >>]
OkFile(ohlc) == [status |-> "ok", ohlc |-> ohlc]

\* a rally signalled on 1 Feb, entered at 100.00 and left at 101.50
RallyUp ==
    OkFile(MkBars(
        <<Rupees(100), 999000, Rupees(93), Rupees(91), Rupees(90)>>,
        <<1015000, 999000, Rupees(93), Rupees(91), Rupees(90)>>, 2))
\* the same rally, left at 99.50
RallyDown ==
    OkFile(MkBars(
        <<Rupees(100), 999000, Rupees(93), Rupees(91), Rupees(90)>>,
        <<995000, 999000, Rupees(93), Rupees(91), Rupees(90)>>, 2))
\* two overlapping rallies, signalled on 1 Feb and on 31 Jan
RallyTwice ==
    OkFile(MkBars(
        <<Rupees(115), Rupees(114), Rupees(109), Rupees(105), Rupees(102), Rupees(100)>>,
        <<Rupees(115), Rupees(113), Rupees(109), Rupees(105), Rupees(102), Rupees(100)>>, 2))
\* two overlapping rallies of a penny instrument, signalled on 30 and 29 Jan
PennyRally ==
    OkFile(MkBars(<<34, 34, 13, 5, 2, 1>>, <<5, 0, 13, 5, 2, 1>>, 4))

FileChoices ==
    {MissingFile, UnparsableFile, RallyUp, RallyDown, RallyTwice, PennyRally}

----------------------------------------------------------------------------
(* GET /backtest and runBacktest *)

NoLocals ==
    /\ allTrades' = << >>
    /\ allTradesByDates' = << >>
    /\ monthlyPnl' = << >>
    /\ trades' = << >>
    /\ processed' = << >>
    /\ csvLines' = << >>
    /\ results' = << >>

\* GET /backtest arrives: runBacktest maps every symbol to runTest, and each
\* runTest starts the read of its file
Request ==
    /\ pc \in {"idle", "responded", "failed"}
    /\ \A i \in 1..Len(scans) : scans[i].state # "pending"
    /\ previous' = IF pc = "idle" THEN << >>
                   ELSE << [response |-> response, csvLines |-> csvLines] >>
    /\ pc' = "scanning"
    /\ scans' = [i \in 1..Len(nfoStocks) |-> [state |-> "pending", value |-> << >>]]
    /\ completionOrder' = << >>
    /\ NoLocals
    /\ response' = << >>
    /\ UNCHANGED <<nfoStocks, files, disk>>
    /\ UNCHANGED <<dvars, svars, ivars>>

\* the callback of fs.readFile runs with err: readFile rejects, so runTest
\* rejects, so Promise.all and runBacktest reject, and the route answers 400
ReadError(i) ==
    /\ pc \in {"scanning", "failed"}
    /\ scans[i].state = "pending"
    /\ files[i].status = "missing"
    /\ scans' = [scans EXCEPT ![i].state = "rejected"]
    /\ completionOrder' = Append(completionOrder, i)
    /\ IF pc = "scanning"
       THEN /\ pc' = "failed"
            /\ response' = << [status |-> 400, body |-> <<"Error", nfoStocks[i]>>] >>
       ELSE UNCHANGED <<pc, response>>
    /\ UNCHANGED <<nfoStocks, files, allTrades, allTradesByDates, monthlyPnl,
                   trades, processed, csvLines, results, disk, previous>>
    /\ UNCHANGED <<dvars, svars, ivars>>

\* the callback of fs.readFile runs and JSON.parse throws inside it: the
\* exception is caught by nobody, the promise never settles, the process ends
ParseError(i) ==
    /\ pc \in {"scanning", "failed"}
    /\ scans[i].state = "pending"
    /\ files[i].status = "unparsable"
    /\ pc' = "crashed"
    /\ UNCHANGED <<nfoStocks, files, scans, completionOrder, allTrades,
                   allTradesByDates, monthlyPnl, trades, processed, csvLines,
                   results, disk, response, previous>>
    /\ UNCHANGED <<dvars, svars, ivars>>

\* the callback of fs.readFile runs with the content: runTest scans the array
ReadOk(i) ==
    /\ pc \in {"scanning", "failed"}
    /\ scans[i].state = "pending"
    /\ files[i].status = "ok"
    /\ scans' = [scans EXCEPT ![i] =
                    [state |-> "fulfilled", value |-> RunTest(nfoStocks[i], files[i].ohlc)]]
    /\ completionOrder' = Append(completionOrder, i)
    /\ UNCHANGED <<nfoStocks, files, pc, allTrades, allTradesByDates,
                   monthlyPnl, trades, processed, csvLines, results, disk,
                   response, previous>>
    /\ UNCHANGED <<dvars, svars, ivars>>

\* Promise.all resolves: runBacktest runs on to its first await writeFile
Aggregate ==
    /\ pc = "scanning"
    /\ \A i \in 1..Len(scans) : scans[i].state = "fulfilled"
    /\ LET flat == Flatten(PromiseAllValues)
           grouped == GroupByDate(flat)
           st == ProcessDates(SortedDates(grouped),
                    [buckets |-> grouped, monthlyPnl |-> << >>,
                     trades |-> << >>, processed |-> << >>])
       IN  /\ allTrades' = flat
           /\ allTradesByDates' = st.buckets
           /\ monthlyPnl' = st.monthlyPnl
           /\ trades' = st.trades
           /\ processed' = st.processed
           /\ csvLines' = <<CsvHeader>> \o CsvRows(st.trades)
           /\ results' = << [yearlyPnl |-> YearlyPnl(st.monthlyPnl, Num(0)),
                             monthlyPnl |-> st.monthlyPnl,
                             trades |-> st.trades] >>
    /\ pc' = "writeJson"
    /\ UNCHANGED <<nfoStocks, files, scans, completionOrder, disk, response,
                   previous>>
    /\ UNCHANGED <<dvars, svars, ivars>>

\* await helpers.writeFile(`${year}/backtest-result`, results)
WriteJson ==
    /\ pc = "writeJson"
    /\ disk' = [disk EXCEPT !.json = results]
    /\ pc' = "writeCsv"
    /\ UNCHANGED <<nfoStocks, files, scans, completionOrder, allTrades,
                   allTradesByDates, monthlyPnl, trades, processed, csvLines,
                   results, response, previous>>
    /\ UNCHANGED <<dvars, svars, ivars>>

\* await helpers.writeFile(`${year}/backtest-result.csv`, ...), return results,
\* and the route sends them
WriteCsv ==
    /\ pc = "writeCsv"
    /\ disk' = [disk EXCEPT !.csv = <<csvLines>>]
    /\ pc' = "responded"
    /\ response' = << [status |-> 200, body |-> results[1]] >>
    /\ UNCHANGED <<nfoStocks, files, scans, completionOrder, allTrades,
                   allTradesByDates, monthlyPnl, trades, processed, csvLines,
                   results, previous>>
    /\ UNCHANGED <<dvars, svars, ivars>>

IIdle ==
    /\ instruments = << >>
    /\ dataDir = << >>
    /\ kite = 0
    /\ calls = << >>

SIdle ==
    /\ dayTrades = << >>
    /\ spc = "off"
    /\ selected = << >>

DIdle ==
    /\ series = << >>
    /\ dpc = "off"
    /\ detected = << >>

PIdle ==
    /\ nfoStocks = << >>
    /\ files = << >>
    /\ pc = "off"
    /\ scans = << >>
    /\ completionOrder = << >>
    /\ allTrades = << >>
    /\ allTradesByDates = << >>
    /\ monthlyPnl = << >>
    /\ trades = << >>
    /\ processed = << >>
    /\ csvLines = << >>
    /\ results = << >>
    /\ disk = [json |-> << >>, csv |-> << >>]
    /\ response = << >>
    /\ previous = << >>

Init ==
    /\ \E n \in 0..MaxSymbols : nfoStocks = SubSeq(Universe, 1, n)
    /\ files \in [1..Len(nfoStocks) -> FileChoices]
    /\ pc = "idle"
    /\ scans = << >>
    /\ completionOrder = << >>
    /\ allTrades = << >>
    /\ allTradesByDates = << >>
    /\ monthlyPnl = << >>
    /\ trades = << >>
    /\ processed = << >>
    /\ csvLines = << >>
    /\ results = << >>
    /\ disk = [json |-> << >>, csv |-> << >>]
    /\ response = << >>
    /\ previous = << >>
    /\ DIdle
    /\ SIdle
    /\ IIdle

Next ==
    \/ Request
    \/ \E i \in 1..Len(scans) : ReadError(i)
    \/ \E i \in 1..Len(scans) : ParseError(i)
    \/ \E i \in 1..Len(scans) : ReadOk(i)
    \/ Aggregate
    \/ WriteJson
    \/ WriteCsv

Spec == Init /\ [][Next]_vars

----------------------------------------------------------------------------
(* The detector alone: runTest applied to one ohlc array *)

DInit ==
    /\ \/ IsDetectorInput(series, PennyCloses, PennyOpens)
       \/ IsDetectorInput(series, QuotedCloses, QuotedOpens)
    /\ dpc = "input"
    /\ detected = << >>
    /\ PIdle
    /\ SIdle
    /\ IIdle

\* one call of runTest on the array read from the file
Scan ==
    /\ dpc = "input"
    /\ detected' = RunTest(DetectorSymbol, series)
    /\ dpc' = "scanned"
    /\ UNCHANGED series
    /\ UNCHANGED <<pvars, svars, ivars>>

DNext == Scan

SpecDetector == DInit /\ [][DNext]_vars

----------------------------------------------------------------------------
(* The selector alone: sort and slice applied to the candidates of one date *)

\* Array.prototype.sort keeps the order of equal elements in arrays of at most
\* this many elements on every NodeJS the README admits (version 9 or above);
\* NodeJS 9 and 10 sort longer arrays with a quicksort that does not
InsertionSortMax == 10

\* t ranks below no element of the array
RanksFirst(arr, idx, i) == \A j \in idx : Compare("change", arr[j], arr[i]) >= 0

\* what .sort((t1, t2) => t2.change - t1.change).slice(0, 2) may return: the
\* first two of the stable order for a short array, and for a longer one the
\* first two of any order the comparator accepts
TopOutcomes(arr) ==
    IF Len(arr) <= InsertionSortMax
    THEN {TakeTop(SortByChange(arr))}
    ELSE LET idx == 1..Len(arr)
         IN  {<<arr[i], arr[j]>> : <<i, j>> \in
                 {p \in idx \X idx :
                     /\ p[1] # p[2]
                     /\ RanksFirst(arr, idx, p[1])
                     /\ RanksFirst(arr, idx \ {p[1]}, p[2])}}

\* the ranking keys of the candidates of the selector runs: 1.00 and 2.00
RankKeys == {Num(100 * Cent), Num(200 * Cent)}

\* the i-th candidate groupByDate pushed for the date, with ranking key c
MkCandidate(i, c) ==
    [date |-> FormatDate(BarDate(2)), entry |-> Num(100 * PriceScale),
     exit |-> Num(100 * PriceScale), symbol |-> i, pnlPercent |-> Num(0),
     change |-> c]

SInit ==
    /\ \E n \in 0..MaxBucket : \E c \in [1..n -> RankKeys] :
          dayTrades = [i \in 1..n |-> MkCandidate(i, c[i])]
    /\ spc = "input"
    /\ selected = << >>
    /\ PIdle
    /\ DIdle
    /\ IIdle

\* allTradesByDates[date].sort(...).slice(0, 2).forEach(... trades[date].push)
Select ==
    /\ spc = "input"
    /\ selected' \in TopOutcomes(dayTrades)
    /\ spc' = "selected"
    /\ UNCHANGED dayTrades
    /\ UNCHANGED <<pvars, dvars, ivars>>

SNext == Select

SpecSelector == SInit /\ [][SNext]_vars

----------------------------------------------------------------------------
(* The instruments cache: getInstruments and downloadInstruments *)

\* the file getInstruments reads: readFile('instrument')
ReadName == "instrument"
\* the file downloadInstruments writes: writeFile('instruments', instruments)
WriteName == "instruments"
\* the file the documentation of getInstruments names: data/instruments.json
DocumentedName == "instruments"

\* a call that has not been made
NoCall ==
    [fn |-> "none", at |-> "idle", loaded |-> FALSE, onDisk |-> FALSE,
     read |-> FALSE, fetched |-> FALSE, content |-> 0, value |-> << >>]

\* a slot is free when no call occupies it or its call has settled
Settled(c) == calls[c].at \in {"idle", "returned", "failed"}

\* a started process: nothing in memory, data/instrument.json never written,
\* data/instruments.json absent or left by downloadInstruments of an earlier
\* process (listing 0)
IInit ==
    /\ instruments = << >>
    /\ \E f \in {<< >>, <<0>>} : dataDir = [instruments |-> f, instrument |-> << >>]
    /\ kite = 0
    /\ calls = [c \in 1..MaxCalls |-> NoCall]
    /\ PIdle
    /\ DIdle
    /\ SIdle

\* getInstruments() up to its first await: answers from memory, or asks for
\* the file
GetInstruments(c) ==
    /\ Settled(c)
    /\ LET call == [NoCall EXCEPT !.fn = "getInstruments",
                                  !.loaded = instruments # << >>,
                                  !.onDisk = dataDir[DocumentedName] # << >>]
       IN  IF instruments # << >>
           THEN calls' = [calls EXCEPT ![c] =
                    [call EXCEPT !.at = "returned", !.value = instruments]]
           ELSE calls' = [calls EXCEPT ![c] =
                    [call EXCEPT !.at = "reading", !.read = TRUE]]
    /\ UNCHANGED <<instruments, dataDir, kite>>
    /\ UNCHANGED <<pvars, dvars, svars>>

\* the callback of fs.readFile: the content is assigned and returned, or the
\* error is caught and downloadInstruments asks Kite
ReadDone(c) ==
    /\ calls[c].at = "reading"
    /\ IF dataDir[ReadName] # << >>
       THEN /\ instruments' = dataDir[ReadName]
            /\ calls' = [calls EXCEPT ![c].at = "returned",
                                      ![c].value = dataDir[ReadName]]
       ELSE /\ calls' = [calls EXCEPT ![c].at = "downloading"]
            /\ UNCHANGED instruments
    /\ UNCHANGED <<dataDir, kite>>
    /\ UNCHANGED <<pvars, dvars, svars>>

\* GET /login/callback: downloadInstruments() up to its first await
DownloadInstruments(c) ==
    /\ Settled(c)
    /\ calls' = [calls EXCEPT ![c] =
            [NoCall EXCEPT !.fn = "downloadInstruments",
                           !.loaded = instruments # << >>,
                           !.onDisk = dataDir[DocumentedName] # << >>,
                           !.at = "downloading"]]
    /\ UNCHANGED <<instruments, dataDir, kite>>
    /\ UNCHANGED <<pvars, dvars, svars>>

\* kite.getInstruments('NSE') resolves: the listing is assigned and the write
\* of the file is issued
KiteReply(c) ==
    /\ calls[c].at = "downloading"
    /\ kite < MaxDownloads
    /\ kite' = kite + 1
    /\ instruments' = <<kite + 1>>
    /\ calls' = [calls EXCEPT ![c].at = "writing", ![c].fetched = TRUE,
                              ![c].content = kite + 1]
    /\ UNCHANGED dataDir
    /\ UNCHANGED <<pvars, dvars, svars>>

\* kite.getInstruments('NSE') rejects (no session): the call rejects
KiteError(c) ==
    /\ calls[c].at = "downloading"
    /\ calls' = [calls EXCEPT ![c].at = "failed"]
    /\ UNCHANGED <<instruments, dataDir, kite>>
    /\ UNCHANGED <<pvars, dvars, svars>>

\* the callback of fs.writeFile: the file holds the listing, and the call
\* returns what is in memory by then
WriteDone(c) ==
    /\ calls[c].at = "writing"
    /\ dataDir' = [dataDir EXCEPT ![WriteName] = <<calls[c].content>>]
    /\ calls' = [calls EXCEPT ![c].at = "returned", ![c].value = instruments]
    /\ UNCHANGED <<instruments, kite>>
    /\ UNCHANGED <<pvars, dvars, svars>>

\* the process is started again: memory is lost, the files stay
Restart ==
    /\ \E c \in 1..MaxCalls : calls[c].fn # "none"
    /\ instruments' = << >>
    /\ calls' = [c \in 1..MaxCalls |-> NoCall]
    /\ UNCHANGED <<dataDir, kite>>
    /\ UNCHANGED <<pvars, dvars, svars>>

INext ==
    \/ \E c \in 1..MaxCalls : GetInstruments(c)
    \/ \E c \in 1..MaxCalls : ReadDone(c)
    \/ \E c \in 1..MaxCalls : DownloadInstruments(c)
    \/ \E c \in 1..MaxCalls : KiteReply(c)
    \/ \E c \in 1..MaxCalls : KiteError(c)
    \/ \E c \in 1..MaxCalls : WriteDone(c)
    \/ Restart

SpecInstruments == IInit /\ [][INext]_vars

----------------------------------------------------------------------------
(* Claims about the detector, under SpecDetector *)

\* the number of windows of the array: start = 0 .. length - 5
Windows == 0..(Len(series) - 5)
Bar(i, k) == series[i + k + 1]

\* the three entry conditions on the window starting at i, as the claim words them
C1_Matches(i) ==
    LET c1 == Bar(i, 1).close
        c2 == Bar(i, 2).close
        c3 == Bar(i, 3).close
        c4 == Bar(i, 4).close
        inc1 == PercentChange(c2, c1)
        inc2 == PercentChange(c3, c2)
        inc3 == PercentChange(c4, c4)
    IN  /\ (c1 - c2) > (c2 - c3) /\ (c2 - c3) > (c3 - c4)
        /\ c1 > c2 /\ c2 > c3 /\ c3 > c4
        /\ Gt(inc1, inc2) /\ Gt(inc2, inc3)

\* the candidate the claim describes for the window starting at i
C1_Candidate(i) ==
    LET d0 == Bar(i, 0)
        d1 == Bar(i, 1)
        entry == Cent * RoundHalfUp(d1.close * 1001, 1000 * Cent)
    IN  [date |-> <<d1.date[3], d1.date[2], d1.date[1]>>,
         entry |-> Num(entry),
         exit |-> Num(d0.open),
         change |-> PercentChange(Bar(i, 2).close, d1.close),
         pnlPercent |-> PercentChange(entry, d0.open)]

C1_Fields(t) ==
    [date |-> t.date, entry |-> t.entry, exit |-> t.exit, change |-> t.change,
     pnlPercent |-> t.pnlPercent]

\* C1: runTest emits exactly one candidate for each window that satisfies the
\* three entry conditions and none for any other window (so none at all for an
\* array of fewer than 5 bars), and each candidate has date = d1's date,
\* entry = round2(d1.close * 1.001), exit = d0.open, change = inc1 and
\* pnlPercent = pctChange(entry, exit).
C1_CandidatePerMatchingWindow ==
    dpc = "scanned" =>
        LET matching == {i \in Windows : C1_Matches(i)}
        IN  /\ Len(detected) = Cardinality(matching)
            /\ \A i \in matching :
                  Cardinality({k \in 1..Len(detected) :
                                  C1_Fields(detected[k]) = C1_Candidate(i)}) = 1
            /\ \A k \in 1..Len(detected) :
                  \E i \in matching : C1_Fields(detected[k]) = C1_Candidate(i)
            /\ Len(series) < 5 => detected = << >>

\* a scanned array with a window that matched and a window that did not
C1_Witness ==
    /\ dpc = "scanned"
    /\ Len(detected) >= 1
    /\ \E i \in Windows : ~C1_Matches(i)

\* the window starting at i has the closes d4 = 100, d3 = 102, d2 = 105, d1 = 109
C2_IsScenario(i) ==
    /\ Bar(i, 4).close = 100 * PriceScale
    /\ Bar(i, 3).close = 102 * PriceScale
    /\ Bar(i, 2).close = 105 * PriceScale
    /\ Bar(i, 1).close = 109 * PriceScale

C2_EmittedFor(i) ==
    {k \in 1..Len(detected) :
        detected[k].date = <<Bar(i, 1).date[3], Bar(i, 1).date[2], Bar(i, 1).date[1]>>}

\* C2 as stated: a window with closes d4 = 100, d3 = 102, d2 = 105, d1 = 109
\* yields no candidate, whatever d0.open is.
C2_ScenarioYieldsNoCandidate ==
    dpc = "scanned" =>
        \A i \in Windows : C2_IsScenario(i) => C2_EmittedFor(i) = {}

\* C2 amended: a window with closes d4 = 100, d3 = 102, d2 = 105, d1 = 109
\* yields exactly one candidate, whatever d0.open is: the deltas 4 > 3 > 2
\* satisfy condition 1, and conditions 2 and 3 hold as well.
C2_ScenarioYieldsOneCandidate ==
    dpc = "scanned" =>
        \A i \in Windows : C2_IsScenario(i) => Cardinality(C2_EmittedFor(i)) = 1

\* a scanned array that holds the window of the scenario
C2_Witness ==
    /\ dpc = "scanned"
    /\ \E i \in Windows : C2_IsScenario(i)

\* C7: when the bars of the array have pairwise distinct dates, the candidates
\* runTest emits have pairwise distinct signal dates.
C7_DistinctSignalDates ==
    (/\ dpc = "scanned"
     /\ \A i, j \in 1..Len(series) : i # j => series[i].date # series[j].date)
    => \A k, l \in 1..Len(detected) : k # l => detected[k].date # detected[l].date

\* overlapping windows each emitted a candidate
C7_Witness ==
    /\ dpc = "scanned"
    /\ Len(detected) >= 2

\* the window starting at i divides by zero in a percent change
C10_ZeroBaseline(i) ==
    \/ Bar(i, 2).close = 0
    \/ Bar(i, 3).close = 0
    \/ Bar(i, 4).close = 0
    \/ RoundHalfUp(Bar(i, 1).close * 1001, 1000 * Cent) = 0

\* C10: a window with a zero percent-change baseline (d2, d3 or d4 closing at
\* 0, or an entry price of 0 after slippage) emits no trade, and no candidate
\* carries a NaN or infinite ranking key or pnlPercent.
C10_NoTradeOnZeroBaseline ==
    dpc = "scanned" =>
        /\ \A i \in Windows : C10_ZeroBaseline(i) => C2_EmittedFor(i) = {}
        /\ \A k \in 1..Len(detected) :
              IsNumeric(detected[k].change) /\ IsNumeric(detected[k].pnlPercent)

----------------------------------------------------------------------------
(* Claims about a run of GET /backtest, under Spec *)

Aggregated == pc \in {"writeJson", "writeCsv", "responded"}

\* C3: when the file of an instrument cannot be read or parsed, the run is not
\* rejected: it completes and the instrument contributes zero candidates.
C3_BadFileDoesNotAbort ==
    (\E i \in 1..Len(files) : files[i].status # "ok") => pc \notin {"failed", "crashed"}

CandidatesOn(date) == {k \in 1..Len(allTrades) : allTrades[k].date = date}
DatesWithCandidates == {allTrades[k].date : k \in 1..Len(allTrades)}
ToSet(seq) == {seq[k] : k \in 1..Len(seq)}
GtEq(x, y) == Gt(x, y) \/ (x.k # "nan" /\ x = y)

\* C4: for every date with candidates, the trades recorded for it are exactly
\* min(2, n) of its n candidates, and every selected trade's change is greater
\* than or equal to the change of every candidate of the date not selected.
C4_TopTwoPerDate ==
    Aggregated =>
        /\ ToSet(ObjKeys(trades)) = DatesWithCandidates
        /\ \A date \in DatesWithCandidates :
              LET n == Cardinality(CandidatesOn(date))
                  cands == {allTrades[k] : k \in CandidatesOn(date)}
                  sel == ObjGet(trades, date)
              IN  /\ Len(sel) = IF n < 2 THEN n ELSE 2
                  /\ Cardinality(ToSet(sel)) = Len(sel)
                  /\ ToSet(sel) \subseteq cands
                  /\ \A s \in ToSet(sel) : \A c \in cands \ ToSet(sel) :
                        GtEq(s.change, c.change)

\* a date with three candidates, one of them ranked below the two kept, and a
\* date with a single candidate
C4_Witness ==
    /\ Aggregated
    /\ \E date \in DatesWithCandidates :
          /\ Cardinality(CandidatesOn(date)) >= 3
          /\ \E k \in CandidatesOn(date) :
                /\ allTrades[k] \notin ToSet(ObjGet(trades, date))
                /\ Gt(ObjGet(trades, date)[2].change, allTrades[k].change)
    /\ \E date \in DatesWithCandidates : Cardinality(CandidatesOn(date)) = 1

\* C5: with an empty universe the run fails: no results object with rollup
\* totals is returned to the caller and no result file is written.
C5_EmptyUniverseFails ==
    nfoStocks = << >> =>
        /\ disk = [json |-> << >>, csv |-> << >>]
        /\ \A k \in 1..Len(response) : response[k].status # 200

\* C6: a run on the same files as the run before it answers with the same
\* results (yearlyPnl, monthlyPnl, trades) and exports the same rows, whatever
\* the order in which the reads of either run completed.
C6_RepeatedRunSameResult ==
    (previous # << >> /\ pc = "responded") =>
        /\ Len(previous) = 1
        /\ previous[1].response = response
        /\ previous[1].csvLines = csvLines

\* a repeated run whose reads did not complete in the order of the universe,
\* with candidates of two instruments tied on one date
C6_Witness ==
    /\ previous # << >>
    /\ pc = "responded"
    /\ Len(completionOrder) >= 2
    /\ completionOrder[1] # 1
    /\ \E i \in 1..Len(trades) :
          /\ Len(trades[i].val) = 2
          /\ trades[i].val[1].change = trades[i].val[2].change

RECURSIVE C8_Sum(_)
C8_Sum(ts) == IF Len(ts) = 0 THEN Num(0) ELSE Add(Head(ts).pnlPercent, C8_Sum(Tail(ts)))

C8_Rows == Tail(csvLines)
C8_Selected(date) == ObjGet(trades, date)
C8_DatesSelected == {trades[i].key : i \in {j \in 1..Len(trades) : Len(trades[j].val) >= 1}}

\* C8: after the header the export holds exactly one row for each date with a
\* selected trade and no other row, its value the sum of the date's selected
\* pnlPercent taken from zero; two selected trades of 1.5 and -0.5 on one date
\* give one row of 1.0.
C8_ExportRowPerDate ==
    Aggregated =>
        /\ csvLines[1] = CsvHeader
        /\ Len(C8_Rows) = Cardinality(C8_DatesSelected)
        /\ \A r \in 1..Len(C8_Rows) :
              /\ C8_Rows[r].date \in C8_DatesSelected
              /\ C8_Rows[r].pnl = C8_Sum(C8_Selected(C8_Rows[r].date))
              /\ (/\ Len(C8_Selected(C8_Rows[r].date)) = 2
                  /\ C8_Selected(C8_Rows[r].date)[1].pnlPercent = Num(15000)
                  /\ C8_Selected(C8_Rows[r].date)[2].pnlPercent = Num(0 - 5000))
                 => C8_Rows[r].pnl = Num(10000)
        /\ \A date \in C8_DatesSelected :
              Cardinality({r \in 1..Len(C8_Rows) : C8_Rows[r].date = date}) = 1

\* a date whose two selected trades made 1.5 and -0.5, next to another date
C8_Witness ==
    /\ Aggregated
    /\ Len(C8_Rows) >= 2
    /\ \E r \in 1..Len(C8_Rows) :
          /\ C8_Rows[r].pnl = Num(10000)
          /\ Len(C8_Selected(C8_Rows[r].date)) = 2
          /\ C8_Selected(C8_Rows[r].date)[1].pnlPercent = Num(15000)
          /\ C8_Selected(C8_Rows[r].date)[2].pnlPercent = Num(0 - 5000)

\* calendar order of two keys: by year, then month, then day
C9_Earlier(a, b) ==
    \/ a[3] < b[3]
    \/ a[3] = b[3] /\ a[2] < b[2]
    \/ a[3] = b[3] /\ a[2] = b[2] /\ a[1] < b[1]

\* total := round2(total + dateTotal) over the dates of the month, in order
RECURSIVE C9_Fold(_, _, _)
C9_Fold(dates, month, total) ==
    IF Len(dates) = 0 THEN total
    ELSE IF MonthNames[Head(dates)[2]] = month
         THEN C9_Fold(Tail(dates), month,
                      Round(Add(total, C8_Sum(C8_Selected(Head(dates))))))
         ELSE C9_Fold(Tail(dates), month, total)

\* C9: the dates are processed in ascending calendar order, and each month's
\* total is the stepwise fold total := round2(total + dateTotal), from 0, over
\* the month's dates in that order.
C9_ChronologicalStepwiseFold ==
    Aggregated =>
        /\ \A i, j \in 1..Len(processed) :
              i < j => C9_Earlier(processed[i], processed[j])
        /\ ToSet(processed) = DatesWithCandidates
        /\ \A m \in 1..Len(monthlyPnl) :
              monthlyPnl[m].val = C9_Fold(processed, monthlyPnl[m].key, Num(0))

----------------------------------------------------------------------------
(* Claims about the selector, under SpecSelector *)

\* the place of the candidate inserted i-th among the selected, 0 when left out
C11_Place(i) ==
    IF \E k \in 1..Len(selected) : selected[k].symbol = i
    THEN CHOOSE k \in 1..Len(selected) : selected[k].symbol = i
    ELSE 0

\* C11: among candidates of one date with equal ranking keys, the one inserted
\* earlier is selected in preference to, and listed before, the one inserted
\* later.
C11_TiesKeepInsertionOrder ==
    spc = "selected" =>
        \A i, j \in 1..Len(dayTrades) :
            (/\ i < j
             /\ dayTrades[i].change = dayTrades[j].change
             /\ C11_Place(j) > 0)
            => (C11_Place(i) > 0 /\ C11_Place(i) < C11_Place(j))

\* C11 for the arrays every admitted NodeJS sorts stably: at most 10 candidates
C11_ShortBucketsKeepInsertionOrder ==
    (spc = "selected" /\ Len(dayTrades) <= InsertionSortMax) =>
        \A i, j \in 1..Len(dayTrades) :
            (/\ i < j
             /\ dayTrades[i].change = dayTrades[j].change
             /\ C11_Place(j) > 0)
            => (C11_Place(i) > 0 /\ C11_Place(i) < C11_Place(j))

----------------------------------------------------------------------------
(* Claims about the instruments cache, under SpecInstruments *)

\* C12: a call of getInstruments made while the instruments are not in memory
\* and data/instruments.json exists downloads nothing from Kite: only when
\* that file is absent does it download.
C12_FileServedWithoutDownload ==
    \A c \in 1..MaxCalls :
        (/\ calls[c].fn = "getInstruments"
         /\ ~calls[c].loaded
         /\ calls[c].onDisk)
        => (calls[c].at # "downloading" /\ ~calls[c].fetched)

\* the part of C12 about memory: a call of getInstruments made while the
\* instruments are in memory returns them with no read and no download
C12_MemoryServedWithoutReadOrDownload ==
    \A c \in 1..MaxCalls :
        (calls[c].fn = "getInstruments" /\ calls[c].loaded)
        => (/\ calls[c].at = "returned"
            /\ ~calls[c].read
            /\ ~calls[c].fetched
            /\ calls[c].value # << >>)

\* the last part of C12: once a call of getInstruments has returned, the
\* instruments are in memory, so every later call is served from memory
C12_ReturnLeavesInstrumentsLoaded ==
    \A c \in 1..MaxCalls :
        (calls[c].fn = "getInstruments" /\ calls[c].at = "returned")
        => instruments # << >>

====
